---- MODULE Spec2Model ----
(***************************************************************************)
(* The person-enrichment run controller of app/routers/enrichment/         *)
(* person_enrichment.py (background_enrich_all and the operator handlers   *)
(* start / resume / stop / reset / progress around the module-global       *)
(* enrichment_progress and the checkpoint file PROGRESS_FILE), and the     *)
(* retry loop of run_sparql in app/services/enrichment/sparql_service.py,  *)
(* the Entity Enricher (enrich_single_person, enrich_person_by_name and     *)
(* preview_person_enrichment) and PersonRepo.upsert_person_enrichment.      *)
(*                                                                         *)
(* Threads: FastAPI runs every "def" handler and every background task in  *)
(* a thread pool, so handlers and background_enrich_all executions         *)
(* interleave.  One step of the model is one block of statements of one    *)
(* thread; a Python statement is taken as atomic.                          *)
(***************************************************************************)
EXTENDS Integers, Sequences, FiniteSets, TLC

\* ---------------------------------------------------------------- bounds
NumPersons == 3      \* Person nodes in the store
MaxBatch == 2        \* batch_size is drawn from 1..MaxBatch
MaxTasks == 2        \* background tasks scheduled in one behaviour
MaxCrashes == 1      \* process kills in one behaviour
RaceCandidates == 1  \* persons still to enrich where calls and tasks race
MaxEvents == 2       \* Event nodes in the store of one behaviour
MaxCalls == 2        \* calls of the enricher, or of the upsert, in one behaviour

\* ------------------------------------------------------ program constants
max_retries == 3          \* background_enrich_all: max_retries = 3
MaxLastErrors == 10       \* "Keep last 10 errors"
DefaultRetries == 5       \* run_sparql(..., retries=5, ...)
EnrichLimit == 5          \* enrich_person_by_name: find_qid_by_label(name, limit=5)
PreviewLimit == 1         \* preview_person_enrichment: find_qid_by_label(name, limit=1)
FutureTimeout == 30       \* future.result(timeout=30)
ExternalCalls == 14       \* find_qid_by_label and the 13 get_person_* calls of one enrichment

Persons == 1..NumPersons
\* Names the store's persons carry in a run of the controller: one per person.
DistinctNames == <<"a", "b", "c", "d", "e">>
TaskIds == 1..MaxTasks
BatchSizes == 1..MaxBatch
NULL == "NULL"
QID == "Q1"

VARIABLES
    enrichment_progress,  \* the module-global dict
    file,                 \* PROGRESS_FILE: absent, partially written, or a saved dict
    full_name,            \* store: Person.full_name by article_id
    wikidata_qid,         \* store: Person.wikidata_qid by article_id
    task,                 \* background_enrich_all executions, by task id
    nTasks,               \* tasks handed to BackgroundTasks so far
    resp,                 \* what the last start, resume or reset call returned
    submitted,            \* history: submissions to the worker pool per person
    crashes,              \* history: process kills so far
    sp,                   \* one run_sparql call
    en,                   \* one call of the Entity Enricher and the graph it writes
    ev                    \* one call of enrich_all_events and the Event nodes

vars == <<enrichment_progress, file, full_name, wikidata_qid, task, nTasks,
          resp, submitted, crashes, sp, en, ev>>

\* ------------------------------------------------------------- helpers
Min(S) == CHOOSE x \in S : \A y \in S : x <= y

RECURSIVE SetToSeq(_)
\* The rows of a MATCH in the store's scan order (ascending article_id).
SetToSeq(S) == IF S = {} THEN <<>>
               ELSE <<Min(S)>> \o SetToSeq(S \ {Min(S)})

\* A mutant of SkipLimit: SKIP is ignored.
SkipLimit_from_start(rows, offset, limit) ==
    SubSeq(rows, 1, IF limit < Len(rows) THEN limit ELSE Len(rows))

\* SKIP $offset LIMIT $limit over a row sequence.
SkipLimit(rows, offset, limit) ==
    SubSeq(rows, offset + 1, IF offset + limit < Len(rows) THEN offset + limit ELSE Len(rows))

\* The module-level initial value of enrichment_progress (also reset_progress's).
DefaultProgress ==
    [running |-> FALSE, total |-> 0, processed |-> 0, success |-> 0, failed |-> 0,
     current_batch |-> 0, last_offset |-> 0,
     fail_reasons |-> [not_found |-> 0, qid_not_found |-> 0, error |-> 0, skipped |-> 0],
     last_errors |-> <<>>]

\* WHERE p.full_name IS NOT NULL AND p.wikidata_qid IS NULL
Candidates == {p \in Persons : full_name[p] # NULL /\ wikidata_qid[p] = NULL}

\* fetch_persons_batch's query result (the connection did not fail).
fetch_persons_batch(offset, batch_size) == SkipLimit(SetToSeq(Candidates), offset, batch_size)

\* PROGRESS_FILE on disk. open(PROGRESS_FILE, 'w') truncates it; until json.dump
\* has written the whole dict the content is a proper prefix of a JSON object.
NoFile == [kind |-> "absent", data |-> DefaultProgress]
PartialFile == [kind |-> "partial", data |-> DefaultProgress]
SavedFile(d) == [kind |-> "saved", data |-> d]

\* load_progress: <<>> (None) when the file is missing or json.load raises on
\* it, else <<dict>>.
load_progress == IF file.kind = "saved" THEN <<file.data>> ELSE <<>>

\* One background_enrich_all execution: its arguments and locals, its place in
\* the code (pc), and for the record how it was scheduled (origin), what
\* load_progress gave resume_enrichment (ckpt: <<>>, or <<c>> with c the
\* offset and counters of the dict it returned) and how it left the batch loop
\* (exit: "exhausted" by the while condition on the offset or an empty batch,
\* "stopped" by the running flag, "gave_up" after max_retries fetch failures,
\* "count_failed"), what the external service did for each row of the batch
\* (exts), whether stop was called while it was in its batch loop (stopped),
\* the batches it has submitted to the pool (log: the offset read and the
\* article_ids of the rows), enrichment_progress as the start or resume
\* call that scheduled it found it (before), and the article_ids of the rows
\* whose call returned ok (oks).
IdleTask == [pc |-> "none", start_offset |-> 0, batch_size |-> 1, offset |-> 0,
             total |-> 0, retry_count |-> 0, persons |-> <<>>, results |-> <<>>,
             idx |-> 0, origin |-> "none", ckpt |-> <<>>, exit |-> "none",
             exts |-> <<>>, stopped |-> FALSE, log |-> <<>>,
             before |-> DefaultProgress, oks |-> {}]

IdleSparql == [pc |-> "idle", retries |-> 0, attempt |-> 0, requests |-> 0,
               waits |-> <<>>, history |-> <<>>, result |-> "unset"]

\* A handler's response: its status and whether it carries the progress dict
\* (the live enrichment_progress object, serialised after the handler returns).
NoResp == [op |-> "none", status |-> "none", progress |-> FALSE]

\* The process has just been started, no checkpoint file exists, the store's
\* persons carry the names given and the first n of them still lack a
\* wikidata_qid.
InitStore(names, n) ==
    /\ enrichment_progress = DefaultProgress
    /\ file = NoFile
    /\ full_name = [p \in Persons |-> names[p]]
    /\ wikidata_qid = [p \in Persons |-> IF p <= n THEN NULL ELSE QID]
    /\ task = [t \in TaskIds |-> IdleTask]
    /\ nTasks = 0
    /\ resp = NoResp
    /\ submitted = [p \in Persons |-> 0]
    /\ crashes = 0
    /\ sp = IdleSparql

InitController(n) == InitStore(DistinctNames, n)



\* background_tasks.add_task(background_enrich_all, batch_size, workers, delay, start_offset)
add_task(batch_size, start_offset, origin, ckpt) ==
    /\ nTasks < MaxTasks
    /\ nTasks' = nTasks + 1
    /\ task' = [task EXCEPT ![nTasks + 1] =
                   [IdleTask EXCEPT !.pc = "count", !.start_offset = start_offset,
                                    !.batch_size = batch_size,
                                    !.origin = origin, !.ckpt = ckpt,
                                    !.before = enrichment_progress]]

\* A mutant of already_running: the single-flight check is missing.
already_running_unchecked == FALSE

\* "if enrichment_progress["running"]:" of start_fast_enrich_all and
\* resume_enrichment.
already_running == enrichment_progress.running

\* POST /start-fast-enrich-all
start_fast_enrich_all(batch_size) ==
    IF already_running
    THEN /\ resp' = [op |-> "start", status |-> "already_running",
                     progress |-> TRUE]
         /\ UNCHANGED <<enrichment_progress, file, full_name, wikidata_qid, task,
                        nTasks, submitted, crashes, sp, en, ev>>
    ELSE /\ add_task(batch_size, 0, "start", <<>>)
         /\ resp' = [op |-> "start", status |-> "started", progress |-> FALSE]
         /\ UNCHANGED <<enrichment_progress, file, full_name, wikidata_qid,
                        submitted, crashes, sp, en, ev>>

\* The fields of a progress dict a resume continues from.
Counters(d) == [last_offset |-> d.last_offset, processed |-> d.processed,
                success |-> d.success, failed |-> d.failed]

\* POST /resume-enrich
resume_enrichment(batch_size) ==
    IF already_running
    THEN /\ resp' = [op |-> "resume", status |-> "already_running",
                     progress |-> TRUE]
         /\ UNCHANGED <<enrichment_progress, file, full_name, wikidata_qid, task,
                        nTasks, submitted, crashes, sp, en, ev>>
    ELSE LET saved == load_progress
             start_offset == IF saved # <<>> THEN saved[1].last_offset ELSE 0
         IN /\ enrichment_progress' = IF saved # <<>> THEN saved[1] ELSE enrichment_progress
            /\ add_task(batch_size, start_offset, "resume",
                        IF saved # <<>> THEN <<Counters(saved[1])>> ELSE <<>>)
            /\ resp' = [op |-> "resume", status |-> "resumed", progress |-> FALSE]
            /\ UNCHANGED <<file, full_name, wikidata_qid, submitted, crashes, sp, en, ev>>

\* Task t is in the batch loop of background_enrich_all (lines 371-432).
InLoop(t) == task[t].pc \in {"loop", "dump_top", "fetch", "process", "fold",
                             "advance", "dump_batch"}

\* POST /stop-enrich
stop_enrichment ==
    /\ enrichment_progress' = [enrichment_progress EXCEPT !.running = FALSE]
    /\ task' = [t \in TaskIds |-> IF InLoop(t) THEN [task[t] EXCEPT !.stopped = TRUE]
                                  ELSE task[t]]
    /\ UNCHANGED <<file, full_name, wikidata_qid, nTasks, resp, submitted, crashes, sp, en, ev>>

\* POST /reset-progress
reset_progress ==
    IF enrichment_progress.running
    THEN /\ resp' = [op |-> "reset", status |-> "error", progress |-> FALSE]
         /\ UNCHANGED <<enrichment_progress, file, full_name, wikidata_qid, task,
                        nTasks, submitted, crashes, sp, en, ev>>
    ELSE /\ enrichment_progress' = DefaultProgress
         /\ file' = NoFile
         /\ resp' = [op |-> "reset", status |-> "ok", progress |-> FALSE]
         /\ UNCHANGED <<full_name, wikidata_qid, task, nTasks, submitted, crashes, sp, en, ev>>

\* GET /progress
get_enrichment_progress ==
    LET saved == load_progress
        reload == ~enrichment_progress.running /\ enrichment_progress.processed = 0
                  /\ saved # <<>>
    IN /\ enrichment_progress' = IF reload THEN saved[1] ELSE enrichment_progress
       /\ UNCHANGED <<file, full_name, wikidata_qid, task, nTasks, resp, submitted, crashes, sp, en, ev>>

\* ------------------------------------------------ the Entity Enricher
\* str.lower() on the names of the model.
Lower(name) == IF name = "A" THEN "a" ELSE name

\* enrich_person_by_name, step A: the persons of get_all_persons whose
\* full_name is truthy and equals the name ignoring case; the loop keeps the first.
Match(name) == {p \in Persons : /\ full_name[p] \notin {NULL, ""}
                                /\ Lower(full_name[p]) = Lower(name)}

\* What the external service and the store write do for one call:
\*   found   label search returns keys, every fetch and the upsert succeed
\*   no_qid  find_qid_by_label returns [] (no match, or run_sparql gave None)
\*   raise   a fetch or the upsert raises
\*   hang    the call does not return within future.result's timeout
ExternalBehaviours == {"found", "no_qid", "raise", "hang"}

\* run_sparql used up its retries and returned None:
\*   label_exhausted  in find_qid_by_label (identity resolution)
\*   fetch_exhausted  in one of the get_person_* calls (attribute fetch)
ExhaustedBehaviours == {"label_exhausted", "fetch_exhausted"}

\* The bindings of a label search are entity URIs.
U1 == "http://www.wikidata.org/entity/Q1"
U2 == "http://www.wikidata.org/entity/Q2"

\* r['person']['value'].split('/')[-1]
QidOf(uri) == CASE uri = U1 -> "Q1"
                [] uri = U2 -> "Q2"

\* find_qid_by_label(name, limit): [] when run_sparql returned None ("if data
\* is None: return []"), else the QIDs of the bindings, which are the first
\* limit of the label's bindings in the service (LIMIT %d).
find_qid_by_label(data, limit) ==
    IF data.none THEN <<>>
    ELSE [i \in 1..Min({limit, Len(data.bindings)}) |-> QidOf(data.bindings[i])]

\* What run_sparql hands find_qid_by_label under each behaviour of the service.
LabelData(ext) ==
    [none |-> ext = "label_exhausted",
     bindings |-> IF ext \in {"no_qid", "label_exhausted"} THEN <<>> ELSE <<U1>>]

\* get_person_basic_by_qid and the other get_person_* calls: data.get(...) on
\* the None of an exhausted run_sparql raises AttributeError.
attribute_fetch_raises(ext) == ext \in {"raise", "fetch_exhausted"}

RECURSIVE Pow2(_)
Pow2(n) == IF n = 0 THEN 1 ELSE 2 * Pow2(n - 1)

\* backoff * (2 ** attempt), the part of wait_time that is not jitter (backoff=2.0).
wait_time(attempt) == 2 * Pow2(attempt)

\* Every external call of the enrichment fails transiently (429, 500, 503 or
\* a request error) that many times, then succeeds.
TransientBehaviours == {"fail1", "fail2", "fail3", "fail4"}

Failures(ext) == CASE ext = "fail1" -> 1
                   [] ext = "fail2" -> 2
                   [] ext = "fail3" -> 3
                   [] ext = "fail4" -> 4

RECURSIVE backoff_total(_)
\* The time run_sparql sleeps before the attempt that follows k failures,
\* jitter apart: wait_time(0) + ... + wait_time(k - 1).
backoff_total(k) == IF k = 0 THEN 0 ELSE backoff_total(k - 1) + wait_time(k - 1)

\* The least time, in seconds, the call of enrich_single_person takes under a
\* behaviour: the sleeps of its run_sparql calls, one after the other.
elapsed(ext) ==
    IF ext \in TransientBehaviours THEN ExternalCalls * backoff_total(Failures(ext))
    ELSE 0

\* future.result(timeout=30) raises TimeoutError: the call has not returned.
times_out(ext) == ext = "hang" \/ elapsed(ext) >= FutureTimeout

\* The status of enrich_single_person's result.
enrich_single_person(person, ext) ==
    IF person.full_name \in {NULL, ""} THEN "skipped"
    ELSE IF Match(person.full_name) = {} THEN "not_found"
    ELSE IF find_qid_by_label(LabelData(ext), EnrichLimit) = <<>> THEN "qid_not_found"
    ELSE IF attribute_fetch_raises(ext) THEN "error"
    ELSE "ok"

\* ------------------------------------------------ background_enrich_all
Pc(t) == task[t].pc

\* save_progress, first half: open(PROGRESS_FILE, 'w').
open_w == PartialFile

\* save_progress, second half: json.dump(enrichment_progress, f) has written the
\* dict. A file unlinked while it was open (reset_progress) stays unlinked.
json_dump == IF file.kind = "absent" THEN file ELSE SavedFile(enrichment_progress)

\* The count query raises: running is cleared and the task returns.
count_fails(t) ==
    /\ Pc(t) = "count"
    /\ enrichment_progress' = [enrichment_progress EXCEPT !.running = FALSE]
    /\ task' = [task EXCEPT ![t].pc = "done", ![t].exit = "count_failed"]
    /\ UNCHANGED <<file, full_name, wikidata_qid, nTasks, resp, submitted, crashes, sp, en, ev>>

\* A mutant of fresh_run: a run never zeroes the counters.
fresh_run_never(start_offset) == FALSE

\* "if start_offset == 0:" of background_enrich_all (line 360).
fresh_run(start_offset) == start_offset = 0

\* Lines 342-369: count, publish total and running, zero the counters of a run
\* that starts at offset 0.
count_ok(t) ==
    /\ Pc(t) = "count"
    /\ LET total == Cardinality(Candidates)
           fresh == fresh_run(task[t].start_offset)
       IN /\ enrichment_progress' =
                [enrichment_progress EXCEPT
                    !.total = total, !.running = TRUE,
                    !.processed = IF fresh THEN 0 ELSE @,
                    !.success = IF fresh THEN 0 ELSE @,
                    !.failed = IF fresh THEN 0 ELSE @,
                    !.last_offset = task[t].start_offset]
          /\ task' = [task EXCEPT ![t].pc = "loop", ![t].total = total,
                                  ![t].offset = task[t].start_offset,
                                  ![t].retry_count = 0]
    /\ UNCHANGED <<file, full_name, wikidata_qid, nTasks, resp, submitted, crashes, sp, en, ev>>

\* Line 371: the while condition; lines 372-374 up to save_progress's open.
loop_enter(t) ==
    /\ Pc(t) = "loop"
    /\ task[t].offset < task[t].total /\ enrichment_progress.running
    /\ enrichment_progress' = [enrichment_progress EXCEPT
                                  !.current_batch = task[t].offset,
                                  !.last_offset = task[t].offset]
    /\ file' = open_w
    /\ task' = [task EXCEPT ![t].pc = "dump_top"]
    /\ UNCHANGED <<full_name, wikidata_qid, nTasks, resp, submitted, crashes, sp, en, ev>>

\* Line 371 false, then lines 434-435 up to save_progress's open.
loop_exit(t) ==
    /\ Pc(t) = "loop"
    /\ ~(task[t].offset < task[t].total /\ enrichment_progress.running)
    /\ task' = [task EXCEPT ![t].pc = "finish",
                            ![t].exit = IF task[t].offset < task[t].total
                                        THEN "stopped" ELSE "exhausted"]
    /\ UNCHANGED <<enrichment_progress, file, full_name, wikidata_qid, nTasks, resp,
                   submitted, crashes, sp, en, ev>>

\* json.dump of one of the three save_progress calls completes.
dump(t) ==
    /\ Pc(t) \in {"dump_top", "dump_batch", "dump_end"}
    /\ file' = json_dump
    /\ task' = [task EXCEPT ![t].pc = CASE Pc(t) = "dump_top" -> "fetch"
                                        [] Pc(t) = "dump_batch" -> "loop"
                                        [] OTHER -> "done"]
    /\ UNCHANGED <<enrichment_progress, full_name, wikidata_qid, nTasks, resp,
                   submitted, crashes, sp, en, ev>>

\* A mutant of retry_after_failure: a failed fetch is not counted.
retry_not_counted(retry_count) == retry_count

\* "retry_count += 1" after a failed fetch (line 381).
retry_after_failure(retry_count) == retry_count + 1

\* fetch_persons_batch returned None: lines 379-387.
fetch_fails(t) ==
    /\ Pc(t) = "fetch"
    /\ task' = [task EXCEPT ![t].retry_count = retry_after_failure(@),
                            ![t].pc = IF retry_after_failure(task[t].retry_count)
                                            >= max_retries
                                      THEN "finish" ELSE "loop",
                            ![t].exit = IF retry_after_failure(task[t].retry_count)
                                              >= max_retries
                                        THEN "gave_up" ELSE @]
    /\ UNCHANGED <<enrichment_progress, file, full_name, wikidata_qid, nTasks, resp,
                   submitted, crashes, sp, en, ev>>

\* A mutant of retry_after_success: the count of failed fetches is kept.
retry_kept(retry_count) == retry_count

\* "retry_count = 0  # Reset retry count on success" (line 389).
retry_after_success(retry_count) == 0

\* fetch_persons_batch returned rows: lines 389-396, every row submitted.
fetch_ok(t) ==
    /\ Pc(t) = "fetch"
    /\ LET ids == fetch_persons_batch(task[t].offset, task[t].batch_size)
           persons == [i \in 1..Len(ids) |->
                          [full_name |-> full_name[ids[i]], article_id |-> ids[i]]]
       IN /\ task' = [task EXCEPT
                        ![t].retry_count = retry_after_success(@),
                        ![t].persons = persons,
                        ![t].results = [i \in 1..Len(ids) |-> "pending"],
                        ![t].exts = [i \in 1..Len(ids) |-> "none"],
                        ![t].log = IF Len(ids) = 0 THEN @
                                   ELSE Append(@, [offset |-> task[t].offset,
                                                   ids |-> {ids[i] : i \in 1..Len(ids)}]),
                        ![t].idx = 1,
                        ![t].pc = IF Len(ids) = 0 THEN "finish" ELSE "process",
                        ![t].exit = IF Len(ids) = 0 THEN "exhausted" ELSE @]
          /\ submitted' = [p \in Persons |->
                              submitted[p] + Cardinality({i \in 1..Len(ids) : ids[i] = p})]
    /\ UNCHANGED <<enrichment_progress, file, full_name, wikidata_qid, nTasks, resp,
                   crashes, sp, en, ev>>

\* One pool worker runs enrich_single_person on the i-th row of the batch.
work(t, i, ext) ==
    /\ Pc(t) \in {"process", "fold"}
    /\ i \in 1..Len(task[t].persons)
    /\ task[t].results[i] = "pending"
    /\ LET person == task[t].persons[i]
           status == IF times_out(ext) THEN "timeout" ELSE enrich_single_person(person, ext)
       IN /\ task' = [task EXCEPT ![t].results[i] = status, ![t].exts[i] = ext,
                                  ![t].oks = IF status = "ok"
                                             THEN @ \cup {person.article_id} ELSE @]
          /\ wikidata_qid' = IF status = "ok"
                             THEN [wikidata_qid EXCEPT ![Min(Match(person.full_name))] = QID]
                             ELSE wikidata_qid
    /\ UNCHANGED <<enrichment_progress, file, full_name, nTasks, resp, submitted,
                   crashes, sp, en, ev>>

\* Lines 400-401 (or 420-422 when future.result raised): processed += 1.
fold_processed(t) ==
    /\ Pc(t) = "process"
    /\ task[t].results[task[t].idx] # "pending"
    /\ enrichment_progress' = [enrichment_progress EXCEPT !.processed = @ + 1]
    /\ task' = [task EXCEPT ![t].pc = "fold"]
    /\ UNCHANGED <<file, full_name, wikidata_qid, nTasks, resp, submitted, crashes, sp, en, ev>>

\* last_errors.append(error_info), and pop(0) past ten entries.
append_error(errors, info) ==
    IF Len(errors) + 1 > MaxLastErrors THEN Tail(Append(errors, info))
    ELSE Append(errors, info)

\* Lines 402-418 (or 423-424): the result's status is folded into the counters.
fold_status(t) ==
    /\ Pc(t) = "fold"
    /\ LET i == task[t].idx
           status == task[t].results[i]
           bucket == IF status \in {"not_found", "qid_not_found", "error", "skipped"}
                     THEN status ELSE "error"
           info == [name |-> task[t].persons[i].full_name, status |-> status]
       IN /\ enrichment_progress' =
                IF status = "ok"
                THEN [enrichment_progress EXCEPT !.success = @ + 1]
                ELSE IF status = "timeout"
                THEN [enrichment_progress EXCEPT !.failed = @ + 1,
                                                 !.fail_reasons.error = @ + 1]
                ELSE [enrichment_progress EXCEPT
                         !.failed = @ + 1,
                         !.fail_reasons[bucket] = @ + 1,
                         !.last_errors = append_error(@, info)]
          /\ task' = [task EXCEPT ![t].idx = i + 1,
                                  ![t].pc = IF i = Len(task[t].persons)
                                            THEN "advance" ELSE "process"]
    /\ UNCHANGED <<file, full_name, wikidata_qid, nTasks, resp, submitted, crashes, sp, en, ev>>

\* "with ThreadPoolExecutor(...) as executor:" is left through
\* executor.shutdown(wait=True), which joins the pool's threads: every call
\* of the batch has returned, those whose future.result timed out included.
pool_joined(t) ==
    \A i \in 1..Len(task[t].results) :
        task[t].results[i] # "pending" /\ ~times_out(task[t].exts[i])

\* A call whose future.result(timeout=30) timed out returns at last, while
\* the task waits at the executor's exit; one that was only slow has enriched
\* its person.
worker_returns(t, i) ==
    /\ Pc(t) = "advance"
    /\ i \in 1..Len(task[t].exts)
    /\ times_out(task[t].exts[i])
    /\ LET person == task[t].persons[i]
           ext == task[t].exts[i]
       IN wikidata_qid' =
             IF ext # "hang" /\ enrich_single_person(person, ext) = "ok"
             THEN [wikidata_qid EXCEPT ![Min(Match(person.full_name))] = QID]
             ELSE wikidata_qid
    /\ task' = [task EXCEPT ![t].exts[i] = "late"]
    /\ UNCHANGED <<enrichment_progress, file, full_name, nTasks, resp,
                   submitted, crashes, sp, en, ev>>

\* Lines 426-428 up to save_progress's open, once the executor's with-block
\* has been left.
advance(t) ==
    /\ Pc(t) = "advance"
    /\ pool_joined(t)
    /\ enrichment_progress' = [enrichment_progress EXCEPT
                                  !.last_offset = task[t].offset + task[t].batch_size]
    /\ file' = open_w
    /\ task' = [task EXCEPT ![t].offset = @ + task[t].batch_size,
                            ![t].pc = "dump_batch"]
    /\ UNCHANGED <<full_name, wikidata_qid, nTasks, resp, submitted, crashes, sp, en, ev>>

\* Lines 434-435 up to save_progress's open.
finish(t) ==
    /\ Pc(t) = "finish"
    /\ enrichment_progress' = [enrichment_progress EXCEPT !.running = FALSE]
    /\ file' = open_w
    /\ task' = [task EXCEPT ![t].pc = "dump_end"]
    /\ UNCHANGED <<full_name, wikidata_qid, nTasks, resp, submitted, crashes, sp, en, ev>>

\* The process is killed and started again: threads and the module globals are
\* gone, the checkpoint file and the store are what they were.
Crash ==
    /\ crashes < MaxCrashes
    /\ crashes' = crashes + 1
    /\ enrichment_progress' = DefaultProgress
    /\ task' = [t \in TaskIds |->
                  IF task[t].pc \in {"none", "done"} THEN task[t]
                  ELSE [task[t] EXCEPT !.pc = "killed"]]
    /\ resp' = NoResp
    /\ UNCHANGED <<file, full_name, wikidata_qid, nTasks, submitted, sp, en, ev>>



\* ----------------------------------------------------------- run_sparql
\* What one requests.get + raise_for_status of run_sparql meets: a 200, an HTTP
\* error status, a connection error or a timeout (both RequestException).
TransientStatuses == {"429", "500", "503"}
OtherHttpErrors == {"400", "404", "502", "504"}
\* The statuses on which resp.raise_for_status() raises HTTPError.
HttpErrors == TransientStatuses \cup OtherHttpErrors
RequestErrors == {"connection_error", "timeout"}
Responses == {"200"} \cup TransientStatuses \cup OtherHttpErrors \cup RequestErrors

\* run_sparql(endpoint, query, retries=retries) is called.
sparql_call(retries) ==
    /\ sp.pc = "idle"
    /\ sp' = [IdleSparql EXCEPT !.pc = "loop", !.retries = retries]
    /\ UNCHANGED <<enrichment_progress, file, full_name, wikidata_qid, task, nTasks,
                   resp, submitted, crashes, en, ev>>

\* A mutant of more_attempts: one iteration too many.
more_attempts_inclusive == sp.attempt <= sp.retries

\* "for attempt in range(retries)": another iteration follows.
more_attempts == sp.attempt < sp.retries

\* A mutant of retried_status: every HTTP error status is retried.
retried_status_any(response) == TRUE

\* "if resp.status_code in (429, 503, 500):" of the HTTPError handler.
retried_status(response) == response \in TransientStatuses

\* One iteration of the for loop: lines 18-33.
sparql_attempt(response) ==
    /\ sp.pc = "loop"
    /\ more_attempts
    /\ LET sent == [sp EXCEPT !.requests = @ + 1, !.history = Append(@, response)]
       IN sp' = IF response = "200"
                THEN [sent EXCEPT !.pc = "done", !.result = "json"]
                ELSE IF response \in HttpErrors /\ ~retried_status(response)
                THEN [sent EXCEPT !.pc = "done", !.result = "raised"]
                ELSE [sent EXCEPT !.waits = Append(@, wait_time(sp.attempt)),
                                  !.attempt = @ + 1]
    /\ UNCHANGED <<enrichment_progress, file, full_name, wikidata_qid, task, nTasks,
                   resp, submitted, crashes, en, ev>>

\* The for loop is exhausted: lines 35-36, return None.
sparql_exhausted ==
    /\ sp.pc = "loop"
    /\ ~more_attempts
    /\ sp' = [sp EXCEPT !.pc = "done", !.result = "None"]
    /\ UNCHANGED <<enrichment_progress, file, full_name, wikidata_qid, task, nTasks,
                   resp, submitted, crashes, en, ev>>

\* ---------------------------------------------------------- PersonRepo
\* The graph the repository writes: nodes and relationships in creation order.
\* A node has a label, the value of its key property (full_name of a Person,
\* label of a Position, name of a Conflict, Award or Party, title of a Work)
\* and the properties the upsert sets; an edge joins two nodes by their
\* positions in the node list and carries the value set on the relationship
\* (start and end, or year). Of the six person attributes set by one SET
\* clause the model keeps wikidata_qid and description.
NewNode(label, key) ==
    [label |-> label, key |-> key, article_id |-> NULL, wikidata_qid |-> NULL,
     description |-> NULL, year |-> NULL]

PersonNode(article_id, name, qid) ==
    [NewNode("Person", name) EXCEPT !.article_id = article_id, !.wikidata_qid = qid]

\* MATCH (n:label {key: key}) and MATCH (p:Person {article_id: $person_id}),
\* as node positions in scan order.
Matching(nodes, label, key) ==
    {i \in 1..Len(nodes) : nodes[i].label = label /\ nodes[i].key = key}

MatchPerson(nodes, person_id) ==
    {i \in 1..Len(nodes) : nodes[i].label = "Person" /\ nodes[i].article_id = person_id}

\* A mutant of merge_node: CREATE in place of MERGE.
create_node(nodes, label, key) == Append(nodes, NewNode(label, key))

\* MERGE (n:label {key: key}): the nodes that match are bound, and one is
\* created only when none matches.
merge_node(nodes, label, key) ==
    IF Matching(nodes, label, key) # {} THEN nodes
    ELSE Append(nodes, NewNode(label, key))

\* MERGE (p)-[r:type]->(n) followed by SET r.<property> = value.
merge_edge(edges, type, from, to, value) ==
    LET same == {i \in 1..Len(edges) : /\ edges[i].type = type
                                       /\ edges[i].from = from
                                       /\ edges[i].to = to}
    IN IF same = {}
       THEN Append(edges, [type |-> type, from |-> from, to |-> to, value |-> value])
       ELSE [i \in 1..Len(edges) |->
                IF i \in same THEN [edges[i] EXCEPT !.value = value] ELSE edges[i]]

RECURSIVE merge_edges(_, _, _, _, _)
\* The relationship MERGE of one person, once per node the node MERGE bound.
merge_edges(edges, type, from, targets, value) ==
    IF targets = <<>> THEN edges
    ELSE merge_edges(merge_edge(edges, type, from, Head(targets), value),
                     type, from, Tail(targets), value)

\* The lists of the payload the upsert writes, in the order of its queries
\* (dynasties, events, ranks, orders and crimes are accepted and not written).
Kinds == <<"reigns", "conflicts", "awards", "works", "alliances">>

NodeLabel(kind) ==
    CASE kind = "reigns" -> "Position"
      [] kind = "conflicts" -> "Conflict"
      [] kind = "awards" -> "Award"
      [] kind = "works" -> "Work"
      [] kind = "alliances" -> "Party"

EdgeType(kind) ==
    CASE kind = "reigns" -> "HELD_POSITION"
      [] kind = "conflicts" -> "PARTICIPATED_IN_CONFLICT"
      [] kind = "awards" -> "RECEIVED_AWARD"
      [] kind = "works" -> "CREATED_WORK"
      [] kind = "alliances" -> "MEMBER_OF"

\* One row (p, item) of a list query: the label node is merged (a Work also
\* gets SET wk.year), then the relationship from p to it.
merge_row(g, p, kind, item) ==
    LET nodes1 == merge_node(g.nodes, NodeLabel(kind), item.key)
        bound == Matching(nodes1, NodeLabel(kind), item.key)
        nodes2 == [i \in 1..Len(nodes1) |->
                      IF kind = "works" /\ i \in bound
                      THEN [nodes1[i] EXCEPT !.year = item.value] ELSE nodes1[i]]
    IN [nodes |-> nodes2,
        edges |-> merge_edges(g.edges, EdgeType(kind), p, SetToSeq(bound), item.value)]

RECURSIVE merge_rows(_, _, _, _)
\* UNWIND $list AS item WITH p, item WHERE item.<key> IS NOT NULL, for one p.
merge_rows(g, p, kind, items) ==
    IF items = <<>> THEN g
    ELSE LET item == Head(items)
             g1 == IF item.kind = kind /\ item.key # NULL
                   THEN merge_row(g, p, kind, item) ELSE g
         IN merge_rows(g1, p, kind, Tail(items))

RECURSIVE merge_persons(_, _, _, _)
\* One list query: its rows for every p the MATCH on article_id bound.
merge_persons(g, ps, kind, items) ==
    IF ps = <<>> THEN g
    ELSE merge_persons(merge_rows(g, Head(ps), kind, items), Tail(ps), kind, items)

RECURSIVE merge_lists(_, _, _, _)
\* The list queries, one after the other.
merge_lists(g, person_id, kinds, items) ==
    IF kinds = <<>> THEN g
    ELSE merge_lists(merge_persons(g, SetToSeq(MatchPerson(g.nodes, person_id)),
                                   Head(kinds), items),
                     person_id, Tail(kinds), items)

\* SET p.wikidata_qid = $qid, p.description = $description, ... on every
\* Person the MATCH on article_id binds.
set_attributes(g, person_id, payload) ==
    [g EXCEPT !.nodes =
        [i \in 1..Len(g.nodes) |->
            IF i \in MatchPerson(g.nodes, person_id)
            THEN [g.nodes[i] EXCEPT !.wikidata_qid = payload.qid,
                                    !.description = payload.description]
            ELSE g.nodes[i]]]

RECURSIVE merge_victims(_, _, _)
\* MERGE (victim)-[:KILLED_BY]->(k), for every victim the MATCH bound.
merge_victims(edges, victims, bound) ==
    IF victims = <<>> THEN edges
    ELSE merge_victims(merge_edges(edges, "KILLED_BY", Head(victims), bound, NULL),
                       Tail(victims), bound)

\* "if killer:" MATCH (victim) MERGE (k:Person {full_name: $killer})
\* MERGE (victim)-[:KILLED_BY]->(k).
merge_killer(g, person_id, killer) ==
    IF killer \in {NULL, ""} \/ MatchPerson(g.nodes, person_id) = {} THEN g
    ELSE LET nodes1 == merge_node(g.nodes, "Person", killer)
         IN [nodes |-> nodes1,
             edges |-> merge_victims(g.edges, SetToSeq(MatchPerson(nodes1, person_id)),
                                     SetToSeq(Matching(nodes1, "Person", killer)))]

\* upsert_person_enrichment(person_id, qid, description, ..., killer, reigns, ...)
upsert_person_enrichment(g, person_id, payload) ==
    merge_lists(merge_killer(set_attributes(g, person_id, payload),
                             person_id, payload.killer),
                person_id, Kinds, payload.items)

\* ------------------------------------------------------ Entity Enricher
\* A mutant of first_key: the last key of the list.
last_key(qids) == qids[Len(qids)]

\* qid = qids[0]
first_key(qids) == qids[1]

\* A mutant of except_Exception: nothing is caught.
except_nothing == FALSE

\* enrich_single_person wraps the call of enrich_person_by_name in
\* "try: ... except Exception as e".
except_Exception == TRUE

\* A mutant of writes: the preview has a step D too.
writes_always(op) == TRUE

\* enrich_person_by_name ends with step D, the upsert, whether it is called by
\* enrich_single_person or by confirm_person; the preview returns the candidate
\* it built and has no such step.
writes(op) == op \in {"enrich", "confirm"}

\* A mutant of name_missing: the name is not tested.
name_never_missing(name) == FALSE

\* "if not name:" in enrich_single_person.
name_missing(name) == name \in {NULL, ""}

\* One call of the enricher, and the graph: where the call is (pc), which
\* function was called (op: enrich_single_person, preview_person_enrichment or
\* confirm_person, whose payload's qid is kept in requested),
\* its argument, the first match of step A as a node position (0: none), the
\* keys and the payload it fetched, what it returned (or that it raised), and
\* what it has called so far: get_all_persons (lookups), find_qid_by_label
\* (label_calls), the get_person_* group (fetch_calls) and
\* upsert_person_enrichment (upserts, each call's arguments). service is the
\* external service's ordered bindings per label; g0 is the graph as the call
\* found it; last is the call before this one; failed is the statement of the
\* call that raised, or the run_sparql that returned None.
NoResult == [status |-> "none", qid |-> NULL, message |-> NULL, raised |-> FALSE]
NoPayload == [qid |-> NULL, description |-> NULL, killer |-> NULL, items |-> <<>>]
NoCall == [op |-> "none", name |-> NULL, result |-> NoResult]

IdleEnricher(g, service) ==
    [pc |-> "idle", op |-> "none", person |-> [full_name |-> NULL, article_id |-> NULL],
     match |-> 0, qid |-> NULL, payload |-> NoPayload, result |-> NoResult,
     lookups |-> 0, label_calls |-> 0, fetch_calls |-> 0, upserts |-> <<>>,
     g |-> g, g0 |-> g, service |-> service, last |-> NoCall, calls |-> 0,
     failed |-> "none", requested |-> NULL]

\* The call returns r.
Return(r) == [en EXCEPT !.pc = "done", !.result = r]

\* A statement of the call raises e: enrich_single_person returns an error
\* result carrying str(e); out of preview_person_enrichment, or were nothing
\* caught, the exception leaves the call.
Raise(e) ==
    IF en.op = "enrich" /\ except_Exception
    THEN [Return([NoResult EXCEPT !.status = "error", !.message = e]) EXCEPT
             !.failed = e]
    ELSE [Return([NoResult EXCEPT !.raised = TRUE, !.message = e]) EXCEPT
             !.failed = e]

\* enrich_single_person(person) or preview_person_enrichment(name) is called.
enricher_call(op, person) ==
    /\ en.pc \in {"idle", "done"}
    /\ en.calls < MaxCalls
    /\ LET e == [IdleEnricher(en.g, en.service) EXCEPT
                    !.op = op, !.person = person, !.calls = en.calls + 1,
                    !.last = [op |-> en.op, name |-> en.person.full_name,
                              result |-> en.result]]
       IN en' = IF op = "enrich" /\ name_missing(person.full_name)
                THEN [e EXCEPT !.pc = "done",
                               !.result = [NoResult EXCEPT !.status = "skipped",
                                                           !.message = "no name"]]
                ELSE [e EXCEPT !.pc = "lookup"]
    /\ UNCHANGED <<enrichment_progress, file, full_name, wikidata_qid, task, nTasks,
                   resp, submitted, crashes, sp, ev>>

\* confirm_person(payload): res = enrich_person_by_name(payload.name), nothing
\* being caught; payload.qid is a field of the request.
confirm_person(name, qid) ==
    /\ en.pc \in {"idle", "done"}
    /\ en.calls < MaxCalls
    /\ en' = [IdleEnricher(en.g, en.service) EXCEPT
                 !.pc = "lookup", !.op = "confirm", !.calls = en.calls + 1,
                 !.person = [full_name |-> name, article_id |-> NULL],
                 !.requested = qid,
                 !.last = [op |-> en.op, name |-> en.person.full_name,
                           result |-> en.result]]
    /\ UNCHANGED <<enrichment_progress, file, full_name, wikidata_qid, task, nTasks,
                   resp, submitted, crashes, sp, ev>>

\* "if res.get('status') == 'not_found': raise HTTPException(status_code=404)"
\* in confirm_person; every other result is returned as it is.
confirm_response(e) ==
    IF e.op = "confirm" /\ e.result.status = "not_found"
    THEN [e EXCEPT !.result = [NoResult EXCEPT !.raised = TRUE, !.message = "404"]]
    ELSE e

\* Step A: the first person of get_all_persons whose full_name is truthy and
\* equals the name ignoring case.
FirstMatch(nodes, name) ==
    LET same == {i \in 1..Len(nodes) : /\ nodes[i].label = "Person"
                                       /\ nodes[i].key \notin {NULL, ""}
                                       /\ Lower(nodes[i].key) = Lower(name)}
    IN IF same = {} THEN 0 ELSE Min(same)

step_A(raises) ==
    /\ en.pc = "lookup"
    /\ LET e == [en EXCEPT !.lookups = @ + 1]
           m == FirstMatch(en.g.nodes, en.person.full_name)
       IN en' = IF raises THEN [Raise("get_all_persons") EXCEPT !.lookups = @ + 1]
                ELSE IF m = 0
                THEN confirm_response([e EXCEPT
                         !.pc = "done",
                         !.result = [NoResult EXCEPT !.status = "not_found"]])
                ELSE IF en.g.nodes[m].article_id = NULL
                THEN [e EXCEPT !.pc = "done",
                               !.result = [NoResult EXCEPT
                                              !.status = "error",
                                              !.message = "article_id is None"]]
                ELSE [e EXCEPT !.pc = "resolve", !.match = m]
    /\ UNCHANGED <<enrichment_progress, file, full_name, wikidata_qid, task, nTasks,
                   resp, submitted, crashes, sp, ev>>

\* find_qid_by_label(name, limit=5) in enrich_person_by_name,
\* find_qid_by_label(name, limit=1) in preview_person_enrichment.
LimitOf(op) == IF op = "preview" THEN PreviewLimit ELSE EnrichLimit

\* Step B: the label search; the first key is taken.
step_B(outcome) ==
    /\ en.pc = "resolve"
    /\ LET e == [en EXCEPT !.label_calls = @ + 1]
           data == [none |-> outcome = "exhausted",
                    bindings |-> en.service[en.person.full_name]]
           qids == find_qid_by_label(data, LimitOf(en.op))
       IN en' = IF outcome = "raises"
                THEN [Raise("find_qid_by_label") EXCEPT !.label_calls = @ + 1]
                ELSE IF qids = <<>>
                THEN [e EXCEPT !.pc = "done",
                               !.failed = IF data.none THEN "run_sparql" ELSE @,
                               !.result = [NoResult EXCEPT !.status = "qid_not_found"]]
                ELSE [e EXCEPT !.pc = "fetch", !.qid = first_key(qids)]
    /\ UNCHANGED <<enrichment_progress, file, full_name, wikidata_qid, task, nTasks,
                   resp, submitted, crashes, sp, ev>>

\* Step C: get_person_basic_by_qid and the other get_person_* calls; on the
\* None of an exhausted run_sparql data.get(...) raises AttributeError. The
\* preview returns the candidate it built.
step_C(outcome, fetched) ==
    /\ en.pc = "fetch"
    /\ LET e == [en EXCEPT !.fetch_calls = @ + 1]
       IN en' = IF outcome # "answers"
                THEN [Raise("get_person") EXCEPT !.fetch_calls = @ + 1]
                ELSE IF ~writes(en.op)
                THEN [e EXCEPT !.pc = "done",
                               !.payload = [fetched EXCEPT !.qid = en.qid],
                               !.result = [NoResult EXCEPT !.status = "ok",
                                                           !.qid = en.qid]]
                ELSE [e EXCEPT !.pc = "write",
                               !.payload = [fetched EXCEPT !.qid = en.qid]]
    /\ UNCHANGED <<enrichment_progress, file, full_name, wikidata_qid, task, nTasks,
                   resp, submitted, crashes, sp, ev>>

\* Step D: repo.upsert_person_enrichment(person_id=person_id, qid=qid, ...),
\* person_id being the article_id of step A's match.
step_D(raises) ==
    /\ en.pc = "write"
    /\ LET person_id == en.g.nodes[en.match].article_id
           call == [person_id |-> person_id, payload |-> en.payload]
       IN en' = IF raises
                THEN [Raise("upsert_person_enrichment") EXCEPT
                         !.upserts = Append(@, call)]
                ELSE [en EXCEPT !.pc = "done",
                                !.upserts = Append(@, call),
                                !.g = upsert_person_enrichment(en.g, person_id, en.payload),
                                !.result = [NoResult EXCEPT !.status = "ok",
                                                            !.qid = en.qid]]
    /\ UNCHANGED <<enrichment_progress, file, full_name, wikidata_qid, task, nTasks,
                   resp, submitted, crashes, sp, ev>>

\* upsert_person_enrichment is called on the repository.
upsert_call(person_id, payload) ==
    /\ en.pc = "idle"
    /\ en' = [en EXCEPT !.pc = "done", !.op = "upsert",
                        !.upserts = <<[person_id |-> person_id, payload |-> payload]>>,
                        !.g0 = en.g,
                        !.g = upsert_person_enrichment(en.g, person_id, payload)]
    /\ UNCHANGED <<enrichment_progress, file, full_name, wikidata_qid, task, nTasks,
                   resp, submitted, crashes, sp, ev>>

\* upsert_person_enrichment is called again with the arguments of the last call.
upsert_repeat ==
    /\ en.op = "upsert"
    /\ Len(en.upserts) < MaxCalls
    /\ LET call == en.upserts[Len(en.upserts)]
       IN en' = [en EXCEPT !.upserts = Append(@, call),
                           !.g0 = en.g,
                           !.g = upsert_person_enrichment(en.g, call.person_id,
                                                          call.payload)]
    /\ UNCHANGED <<enrichment_progress, file, full_name, wikidata_qid, task, nTasks,
                   resp, submitted, crashes, sp, ev>>

\* The store of the enricher's calls: two persons whose names differ by case
\* only, a person a killer MERGE created (no article_id), a person with an
\* empty name; EnrichedStore also holds what an earlier enrichment wrote.
BareStore ==
    [nodes |-> <<PersonNode("p1", "a", NULL), PersonNode("p2", "A", NULL),
                 PersonNode(NULL, "k", NULL), PersonNode("p3", "", NULL)>>,
     edges |-> <<>>]

EnrichedStore ==
    [nodes |-> BareStore.nodes \o
               <<NewNode("Position", "King"),
                 [NewNode("Work", "Book") EXCEPT !.year = "y2"]>>,
     edges |-> <<[type |-> "HELD_POSITION", from |-> 2, to |-> 5, value |-> "y1"],
                 [type |-> "CREATED_WORK", from |-> 1, to |-> 6, value |-> "y2"]>>]

\* The rows enrich_single_person is called with: the store's persons, and one
\* whose entity has been deleted since the batch was fetched.
Rows == {[full_name |-> "a", article_id |-> "p1"],
         [full_name |-> "A", article_id |-> "p2"],
         [full_name |-> "k", article_id |-> NULL],
         [full_name |-> "", article_id |-> "p3"],
         [full_name |-> "z", article_id |-> "p4"]}

\* The external service: per label, its bindings in the order it returns them.
BindingLists == {<<>>, <<U1>>, <<U2, U1>>}
Services == [{"a", "A"} -> BindingLists]

\* What the get_person_* calls may return.
Item(kind, key, value) == [kind |-> kind, key |-> key, value |-> value]

Fetched == {[NoPayload EXCEPT !.description = "d1"],
            [NoPayload EXCEPT !.killer = "k2",
                              !.items = <<Item("reigns", "King", "y1")>>]}

Items == {Item("reigns", "King", "y1"), Item("reigns", "King", "y2"),
          Item("reigns", NULL, "y1"), Item("conflicts", "War", "y1"),
          Item("awards", "Medal", "y1"), Item("works", "Book", "y1"),
          Item("works", "Book", "y2"), Item("alliances", "Party", "y1")}

ItemLists == {<<>>} \cup {<<i>> : i \in Items} \cup {<<i, j>> : i, j \in Items}

Payloads == {[qid |-> q, description |-> d, killer |-> k, items |-> l] :
                q \in {"Q1", "Q2"}, d \in {NULL, "d1"}, k \in {NULL, "a", "k2"},
                l \in ItemLists}

\* ------------------------------------------------------ enrich_all_events
\* One call of enrich_all_events and the Event nodes of the graph (store, each
\* with name, event_id and wikidata_qid): where the call is (pc), the rows
\* get_all_events returned (events), the loop's position in them (i), the key
\* of the event in hand (qid), the results list, and the exception that left
\* the call (raised, NULL when it returned).
IdleEvents(store) ==
    [pc |-> "idle", store |-> store, events |-> <<>>, i |-> 0, qid |-> NULL,
     results |-> <<>>, raised |-> NULL]

EventNode(name, event_id) == [name |-> name, event_id |-> event_id, wikidata_qid |-> NULL]

\* get_all_events: "MATCH (e:Event) RETURN e.name AS name, e.event_id AS event_id"
get_all_events(store) ==
    [k \in 1..Len(store) |-> [name |-> store[k].name, event_id |-> store[k].event_id]]

\* get_event_qid_by_name(name, limit=1): run_sparql's answer is read with
\* data.get(...), which raises AttributeError on the None of an exhausted
\* run_sparql; otherwise the QIDs of the first binding at most.
get_event_qid_by_name(data) ==
    IF data.none THEN [raised |-> "AttributeError", qids |-> <<>>]
    ELSE [raised |-> NULL,
          qids |-> [k \in 1..Min({1, Len(data.bindings)}) |-> QidOf(data.bindings[k])]]

\* upsert_event_enrichment: "MATCH (e:Event {event_id: $event_id}) SET
\* e.wikidata_qid = $qid, ..."
upsert_event_enrichment(store, event_id, qid) ==
    [k \in 1..Len(store) |->
        IF store[k].event_id = event_id THEN [store[k] EXCEPT !.wikidata_qid = qid]
        ELSE store[k]]

\* A statement of enrich_all_events raises e: nothing in the function or in
\* the route catches it, so the call ends without a results list.
EventsRaise(e) == [ev EXCEPT !.pc = "done", !.raised = e]

EventsUnchanged ==
    UNCHANGED <<enrichment_progress, file, full_name, wikidata_qid, task, nTasks,
                resp, submitted, crashes, sp, en>>

\* enrich_all_events is called: events = repo.get_all_events(limit=10000).
enrich_all_events(raises) ==
    /\ ev.pc = "idle"
    /\ ev' = IF raises THEN EventsRaise("get_all_events")
             ELSE [ev EXCEPT !.pc = "loop", !.events = get_all_events(ev.store),
                             !.i = 1, !.results = <<>>]
    /\ EventsUnchanged

\* "for e in events:" up to the key: past the last event the list is returned;
\* an event without name or id is skipped; otherwise the key is looked up and
\* "qid = qids[0] if qids else None".
event_resolve(data, raises) ==
    /\ ev.pc = "loop"
    /\ LET e == ev.events[ev.i]
           r == get_event_qid_by_name(data)
       IN ev' = IF ev.i > Len(ev.events) THEN [ev EXCEPT !.pc = "done"]
                ELSE IF e.name \in {NULL, ""} \/ e.event_id = NULL
                THEN [ev EXCEPT !.i = @ + 1,
                                !.results = Append(@, [event_id |-> e.event_id,
                                                       status |-> "skip_no_name_or_id"])]
                ELSE IF raises THEN EventsRaise("HTTPError")
                ELSE IF r.raised # NULL THEN EventsRaise(r.raised)
                ELSE IF r.qids = <<>>
                THEN [ev EXCEPT !.i = @ + 1,
                                !.results = Append(@, [event_id |-> e.event_id,
                                                       status |-> "qid_not_found"])]
                ELSE [ev EXCEPT !.pc = "fetch", !.qid = r.qids[1]]
    /\ EventsUnchanged

\* basic = get_event_basic_by_qid(qid): the same data.get(...) on run_sparql's
\* answer.
event_fetch(outcome) ==
    /\ ev.pc = "fetch"
    /\ ev' = CASE outcome = "answers" -> [ev EXCEPT !.pc = "write"]
               [] outcome = "exhausted" -> EventsRaise("AttributeError")
               [] outcome = "raises" -> EventsRaise("HTTPError")
    /\ EventsUnchanged

\* repo.upsert_event_enrichment(event_id, qid, ...) and the ok entry.
event_write(raises) ==
    /\ ev.pc = "write"
    /\ LET e == ev.events[ev.i]
       IN ev' = IF raises THEN EventsRaise("upsert_event_enrichment")
                ELSE [ev EXCEPT !.pc = "loop", !.i = @ + 1, !.qid = NULL,
                                !.store = upsert_event_enrichment(@, e.event_id, ev.qid),
                                !.results = Append(@, [event_id |-> e.event_id,
                                                       status |-> "ok"])]
    /\ EventsUnchanged

\* The Event nodes a call may find.
EventNodes == {EventNode("e1", "v1"), EventNode("e2", "v2"),
               EventNode(NULL, "v3"), EventNode("e4", NULL)}

EventStores == UNION {[1..n -> EventNodes] : n \in 0..MaxEvents}

\* ------------------------------------------------------ specifications
\* A controller's behaviours leave the enricher's call idle.
NoService == [label \in {"a", "A"} |-> <<>>]

InitWith(n) ==
    /\ InitController(n)
    /\ en = IdleEnricher(BareStore, NoService)
    /\ ev = IdleEvents(<<>>)
    /\ ev = IdleEvents(<<>>)

Init == InitWith(NumPersons)

NoLiveTask == \A t \in TaskIds : task[t].pc \in {"none", "done", "killed"}

\* The operator's calls, arriving at any time, with batch sizes up to n.
Handlers(n) ==
    \/ \E b \in 1..n : start_fast_enrich_all(b)
    \/ \E b \in 1..n : resume_enrichment(b)
    \/ stop_enrichment
    \/ reset_progress
    \/ get_enrichment_progress

\* The steps of the background tasks while the store answers, the enricher's
\* calls behaving in the ways of E.
RunSteps(E) ==
    \/ \E t \in TaskIds : count_ok(t)
    \/ \E t \in TaskIds : loop_enter(t)
    \/ \E t \in TaskIds : loop_exit(t)
    \/ \E t \in TaskIds : dump(t)
    \/ \E t \in TaskIds : fetch_ok(t)
    \/ \E t \in TaskIds, i \in 1..MaxBatch, ext \in E : work(t, i, ext)
    \/ \E t \in TaskIds : fold_processed(t)
    \/ \E t \in TaskIds : fold_status(t)
    \/ \E t \in TaskIds : advance(t)
    \/ \E t \in TaskIds : finish(t)

\* The store refuses a connection.
StoreFailures ==
    \/ \E t \in TaskIds : count_fails(t)
    \/ \E t \in TaskIds : fetch_fails(t)

\* Handlers and background tasks of one process, interleaved in every way, over
\* a store in which RaceCandidates persons are still to be enriched.
Next == Handlers(RaceCandidates) \/ RunSteps({"found", "no_qid"})

Spec == InitWith(RaceCandidates) /\ [][Next]_vars

\* One fresh run: start is called once, nothing stops the run, the store answers.
NextRun ==
    \/ (nTasks = 0 /\ \E b \in BatchSizes : start_fast_enrich_all(b))
    \/ RunSteps(ExternalBehaviours)
    \/ \E t \in TaskIds, i \in 1..MaxBatch : worker_returns(t, i)

SpecRun == Init /\ [][NextRun]_vars

\* A run that is stopped or killed, and resumed: start once, then stop or a
\* process kill, then resume once no task is left.
NextResume ==
    \/ (nTasks = 0 /\ \E b \in BatchSizes : start_fast_enrich_all(b))
    \/ (nTasks > 0 /\ NoLiveTask /\ \E b \in BatchSizes : resume_enrichment(b))
    \/ (~NoLiveTask /\ enrichment_progress.running /\ stop_enrichment)
    \/ (~NoLiveTask /\ Crash)
    \/ RunSteps(ExternalBehaviours)
    \/ \E t \in TaskIds, i \in 1..MaxBatch : worker_returns(t, i)

SpecResume == Init /\ [][NextResume]_vars

\* Runs one after the other: start, resume and reset are called only while no
\* task is left, stop only while one runs; the store answers and every
\* enrichment call returns.
NextSerial ==
    \/ (NoLiveTask /\ \E b \in BatchSizes : start_fast_enrich_all(b))
    \/ (nTasks > 0 /\ NoLiveTask /\ \E b \in BatchSizes : resume_enrichment(b))
    \/ (nTasks > 0 /\ NoLiveTask /\ reset_progress)
    \/ (~NoLiveTask /\ enrichment_progress.running /\ stop_enrichment)
    \/ RunSteps({"found", "no_qid"})

SpecSerial == Init /\ [][NextSerial]_vars

\* One run left to itself over a store whose connection may fail at any fetch
\* and at the count, for every number of candidates from none to NumPersons.
\* The task's thread keeps being scheduled and every enrichment call returns
\* in the end (TaskSteps is weakly fair); which of its enabled steps happens
\* next, a failed or a successful fetch for one, is not constrained.
TaskSteps ==
    \/ RunSteps(ExternalBehaviours)
    \/ StoreFailures
    \/ \E t \in TaskIds, i \in 1..MaxBatch : worker_returns(t, i)

NextTerminates ==
    \/ (nTasks = 0 /\ \E b \in BatchSizes : start_fast_enrich_all(b))
    \/ TaskSteps

InitTerminates == \E n \in 0..NumPersons : InitWith(n)

SpecTerminates == InitTerminates /\ [][NextTerminates]_vars /\ WF_vars(TaskSteps)

\* One run and the operator's stop, which may arrive at any time after start
\* has answered; the store answers and every enrichment call returns.
NextStop ==
    \/ (nTasks = 0 /\ \E b \in BatchSizes : start_fast_enrich_all(b))
    \/ (~NoLiveTask /\ stop_enrichment)
    \/ RunSteps({"found", "no_qid"})

SpecStop == Init /\ [][NextStop]_vars

\* A process that is killed and restarted while the operator polls: the
\* behaviours of SpecResume, and get_progress at any time.
NextRestart == NextResume \/ get_enrichment_progress

SpecRestart == Init /\ [][NextRestart]_vars

\* Runs over a store whose connection may fail and an external service whose
\* retries may be exhausted: start once, stop or a process kill, resume once no
\* task is left.
NextFail ==
    \/ (nTasks = 0 /\ \E b \in BatchSizes : start_fast_enrich_all(b))
    \/ (nTasks > 0 /\ NoLiveTask /\ \E b \in BatchSizes : resume_enrichment(b))
    \/ (~NoLiveTask /\ enrichment_progress.running /\ stop_enrichment)
    \/ (~NoLiveTask /\ Crash)
    \/ RunSteps({"found", "no_qid"} \cup ExhaustedBehaviours)
    \/ StoreFailures

SpecFail == Init /\ [][NextFail]_vars

\* Handlers and background tasks interleaved in every way, as in Spec, over a
\* store whose connection may fail.
NextRaceFail == Next \/ StoreFailures

SpecRaceFail == InitWith(RaceCandidates) /\ [][NextRaceFail]_vars

\* run_sparql alone, against every sequence of responses.
NextSparql ==
    \/ \E r \in 0..DefaultRetries : sparql_call(r)
    \/ \E response \in Responses : sparql_attempt(response)
    \/ sparql_exhausted

SpecSparql == Init /\ [][NextSparql]_vars

\* One fresh run that nothing stops, over a store with one or more candidates
\* and an external service every call to which fails transiently, fewer times
\* than run_sparql's retries, and then succeeds.
NextTransient ==
    \/ (nTasks = 0 /\ \E b \in BatchSizes : start_fast_enrich_all(b))
    \/ RunSteps(TransientBehaviours)
    \/ \E t \in TaskIds, i \in 1..MaxBatch : worker_returns(t, i)

InitTransient == \E n \in 1..NumPersons : InitWith(n)

SpecTransient == InitTransient /\ [][NextTransient]_vars

\* Runs one after the other (start or resume once no task is left, a process
\* kill in between) over stores in which names repeat, exactly or up to
\* letter case, and over one in which they do not.
NameStores == {DistinctNames,
               <<"a", "A", "b", "c", "d">>,
               <<"a", "b", "A", "c", "d">>,
               <<"a", "a", "b", "c", "d">>}

NextNames ==
    \/ (NoLiveTask /\ \E b \in BatchSizes : start_fast_enrich_all(b))
    \/ (nTasks > 0 /\ NoLiveTask /\ \E b \in BatchSizes : resume_enrichment(b))
    \/ (~NoLiveTask /\ Crash)
    \/ RunSteps({"found", "no_qid"})

InitNames ==
    /\ \E names \in NameStores : InitStore(names, NumPersons)
    /\ en = IdleEnricher(BareStore, NoService)
    /\ ev = IdleEvents(<<>>)

SpecNames == InitNames /\ [][NextNames]_vars

\* The enricher alone: calls of enrich_single_person and of
\* preview_person_enrichment, one after the other, every statement of which
\* may fail, against every content of the external service.
Outcomes == {"answers", "raises", "exhausted"}

NextEnrich ==
    \/ \E op \in {"enrich", "preview"}, person \in Rows : enricher_call(op, person)
    \/ \E raises \in BOOLEAN : step_A(raises)
    \/ \E outcome \in Outcomes : step_B(outcome)
    \/ \E outcome \in Outcomes, fetched \in Fetched : step_C(outcome, fetched)
    \/ \E raises \in BOOLEAN : step_D(raises)

InitEnrich ==
    /\ InitController(NumPersons)
    /\ en \in {IdleEnricher(BareStore, service) : service \in Services}
    /\ ev = IdleEvents(<<>>)

SpecEnrich == InitEnrich /\ [][NextEnrich]_vars

\* Confirmations alone: calls of confirm_person with any name and any key,
\* against every content of the external service.
NextConfirm ==
    \/ \E name \in {"a", "A", "z"}, qid \in {"Q1", "Q2"} : confirm_person(name, qid)
    \/ \E raises \in BOOLEAN : step_A(raises)
    \/ \E outcome \in Outcomes : step_B(outcome)
    \/ \E outcome \in Outcomes, fetched \in Fetched : step_C(outcome, fetched)
    \/ \E raises \in BOOLEAN : step_D(raises)

SpecConfirm == InitEnrich /\ [][NextConfirm]_vars

\* enrich_all_events alone: one call over any store of events, every external
\* call of which may answer, answer nothing, exhaust its retries or raise.
NextEvents ==
    \/ \E raises \in BOOLEAN : enrich_all_events(raises)
    \/ \E none \in BOOLEAN, bindings \in BindingLists, raises \in BOOLEAN :
          event_resolve([none |-> none, bindings |-> bindings], raises)
    \/ \E outcome \in Outcomes : event_fetch(outcome)
    \/ \E raises \in BOOLEAN : event_write(raises)

InitEvents ==
    /\ InitController(NumPersons)
    /\ en = IdleEnricher(BareStore, NoService)
    /\ ev \in {IdleEvents(store) : store \in EventStores}

SpecEvents == InitEvents /\ [][NextEvents]_vars

\* The repository alone: one upsert with any arguments, then the same again.
NextUpsert ==
    \/ \E person_id \in {"p1", "p2", "p9"}, payload \in Payloads :
          upsert_call(person_id, payload)
    \/ upsert_repeat

InitUpsert ==
    /\ InitController(NumPersons)
    /\ en \in {IdleEnricher(g, NoService) : g \in {BareStore, EnrichedStore}}
    /\ ev = IdleEvents(<<>>)

SpecUpsert == InitUpsert /\ [][NextUpsert]_vars

\* ---------------------------------------------------------------- claims
counters_sum == enrichment_progress.processed =
                    enrichment_progress.success + enrichment_progress.failed

\* C1: a fresh run over N candidates that nothing stops and no store failure
\* interrupts ends with processed = N and success + failed = N, whatever the
\* candidates' outcomes. (N is the count the run took when it began.)
C1_FullRunProcessesAll ==
    \A t \in TaskIds :
        (Pc(t) = "done" /\ task[t].origin = "start")
            => /\ enrichment_progress.processed = task[t].total
               /\ enrichment_progress.success + enrichment_progress.failed = task[t].total

\* C2: whenever no batch is being folded, processed = success + failed.
C2_ProcessedIsSum ==
    (\A t \in TaskIds : Pc(t) \notin {"process", "fold"}) => counters_sum

\* C3: never are two background_enrich_all executions both fetching or
\* processing a batch.
C3_SingleFlight ==
    Cardinality({t \in TaskIds : Pc(t) \in {"fetch", "process", "fold"}}) <= 1

\* C4: a start or resume call made while running is true schedules no task,
\* changes neither RunProgress nor the checkpoint file, and answers
\* already_running together with the progress dict.
C4_AlreadyRunningIsNoOp ==
    [][enrichment_progress.running =>
          /\ nTasks' = nTasks
          /\ (resp' # resp /\ resp'.op \in {"start", "resume"})
                => /\ resp'.status = "already_running" /\ resp'.progress
                   /\ UNCHANGED <<enrichment_progress, file, task>>]_vars

C4_Witness ==
    /\ resp = [op |-> "resume", status |-> "already_running", progress |-> TRUE]
    /\ enrichment_progress.running
    /\ file.kind = "saved"

\* The step in which task t leaves the count and enters the batch loop.
EntersLoop(t) == Pc(t) = "count" /\ task'[t].pc = "loop"

\* C5: a run resumed from a checkpoint starts at the checkpoint's last_offset
\* with processed, success and failed at the checkpoint's values.
C5_ResumeContinues ==
    [][\A t \in TaskIds :
          (EntersLoop(t) /\ task[t].origin = "resume" /\ task[t].ckpt # <<>>)
              => /\ task'[t].offset = task[t].ckpt[1].last_offset
                 /\ Counters(enrichment_progress') = task[t].ckpt[1]]_vars

\* The run of task t is over and ended because the candidates were exhausted.
Exhausted(t) == Pc(t) = "done" /\ task[t].exit = "exhausted"

\* The run of task t was stopped after whole batches, or killed.
StoppedOrKilled(t) == (Pc(t) = "done" /\ task[t].exit = "stopped") \/ Pc(t) = "killed"

\* C6: when a run was stopped or killed and the resumed run has gone through
\* the remaining candidates, every candidate was submitted exactly once.
C6_ResumeExactlyOnce ==
    (StoppedOrKilled(1) /\ task[2].origin = "resume" /\ Exhausted(2))
        => \A p \in Persons : submitted[p] = 1

\* Some but not all of a batch has been folded into RunProgress by task t.
PartlyFolded(t) == Pc(t) = "fold" \/ (Pc(t) = "process" /\ task[t].idx > 1)

\* C7: no checkpoint is written while a batch is partly folded.
C7_CheckpointAtBoundary ==
    [][(file' # file /\ file'.kind = "saved")
          => \A t \in TaskIds : ~PartlyFolded(t)]_vars

\* C8: in no state that another thread or a process kill can meet is the
\* checkpoint file partially written.
C8_AtomicSave == file.kind # "partial"

\* C9: resume without a readable checkpoint (file missing or unparsable)
\* schedules a run at offset 0 and touches nothing else, and that run begins
\* at offset 0 with processed, success and failed at zero.
C9_ResumeWithoutCheckpoint ==
    [][\A t \in TaskIds :
          /\ (Pc(t) = "none" /\ task'[t].origin = "resume" /\ file.kind # "saved")
                => /\ task'[t].ckpt = <<>> /\ task'[t].start_offset = 0
                   /\ task'[t].pc = "count"
                   /\ UNCHANGED <<enrichment_progress, file>>
          /\ (EntersLoop(t) /\ task[t].origin = "resume" /\ task[t].ckpt = <<>>)
                => /\ task'[t].offset = 0
                   /\ enrichment_progress'.processed = 0
                   /\ enrichment_progress'.success = 0
                   /\ enrichment_progress'.failed = 0]_vars

C9_Witness ==
    \E t \in TaskIds :
        /\ task[t].origin = "resume" /\ task[t].ckpt = <<>>
        /\ Pc(t) = "fetch" /\ task[t].offset = 0
        /\ nTasks = 2 /\ enrichment_progress.processed = 0

Transient == TransientStatuses \cup RequestErrors

\* C10: against a service that only ever fails transiently, run_sparql sends
\* exactly `retries` requests and returns None; it never sends more than
\* `retries` requests and never raises on a transient failure.
C10_RetryCeiling ==
    /\ sp.requests <= sp.retries
    /\ (sp.pc = "done" /\ \A k \in 1..Len(sp.history) : sp.history[k] \in Transient)
          => /\ sp.requests = sp.retries
             /\ sp.result = "None"

C10_Witness ==
    /\ sp.pc = "done" /\ sp.retries = DefaultRetries
    /\ sp.requests = DefaultRetries /\ sp.result = "None"
    /\ \A k \in 1..Len(sp.history) : sp.history[k] = "429"
\* C11: a candidate whose external call ran out of retries (in the label
\* search or in an attribute fetch) gets status error and is tallied as failed
\* under fail_reasons.error, and the batch goes on.
C11_ExhaustedIsError ==
    [][\A t \in TaskIds :
          (/\ Pc(t) = "fold" /\ task'[t].idx = task[t].idx + 1
           /\ task[t].exts[task[t].idx] \in ExhaustedBehaviours)
              => /\ task[t].results[task[t].idx] = "error"
                 /\ enrichment_progress'.failed = enrichment_progress.failed + 1
                 /\ enrichment_progress'.fail_reasons.error =
                        enrichment_progress.fail_reasons.error + 1
                 /\ task'[t].pc \in {"process", "advance"}]_vars
\* HTTP failures that are not transient: 4xx other than 429.
ClientErrors == {"400", "404"}

\* C12: a 4xx response other than 429 is not retried: the request that met it
\* is the last one, run_sparql raises without waiting, and when it is the first
\* response exactly one request was made.
C12_ClientErrorNotRetried ==
    \A k \in 1..Len(sp.history) :
        sp.history[k] \in ClientErrors
            => /\ k = Len(sp.history) /\ sp.requests = k
               /\ sp.pc = "done" /\ sp.result = "raised"
               /\ Len(sp.waits) = k - 1

C12_Witness ==
    /\ sp.history = <<"404">> /\ sp.requests = 1
    /\ sp.pc = "done" /\ sp.result = "raised" /\ sp.retries = DefaultRetries

\* The statuses the client is to back off on: 429 and every 5xx.
BackoffStatuses == {"429", "500", "502", "503", "504"}

\* C13: every 429 or 5xx response is followed by a wait and, below the retry
\* ceiling, another request; none is propagated as an immediate failure.
C13_BackoffOn5xx ==
    \A k \in 1..Len(sp.history) :
        sp.history[k] \in BackoffStatuses
            => /\ Len(sp.waits) >= k /\ sp.waits[k] > 0
               /\ sp.result # "raised"
\* The run of task t gave up after fetch failures.
GaveUp(t) == task[t].exit = "gave_up"

\* Fetches that failed in a row at the offset where task t gave up; the first
\* of them is the initial failure, the others are retries.
FailedFetches(t) == task[t].retry_count

\* C14: a run gives up only after the initial failed fetch and 3 retries of
\* it at the same offset.
C14_ThreeRetries ==
    \A t \in TaskIds : GaveUp(t) => FailedFetches(t) - 1 = max_retries

\* The step in which a fetch of task t fails.
FetchFails(t) == Pc(t) = "fetch" /\ task'[t].retry_count = task[t].retry_count + 1

\* C15: a failed fetch leaves the offset, the counters and the submissions
\* alone and never ends the run as exhausted; the final checkpoint of a run
\* that gave up has running false and last_offset at the offset of the failed
\* fetch.
C15_FetchFailureKeepsOffset ==
    [][\A t \in TaskIds :
          /\ FetchFails(t) => /\ task'[t].offset = task[t].offset
                              /\ task'[t].exit # "exhausted"
                              /\ UNCHANGED <<enrichment_progress, submitted>>
          /\ (GaveUp(t) /\ Pc(t) = "dump_end" /\ task'[t].pc = "done")
                => /\ ~enrichment_progress'.running
                   /\ file'.kind = "saved" /\ ~file'.data.running
                   /\ file'.data.last_offset = task[t].offset]_vars
\* Task t holds no batch, or every result of its batch has been folded into
\* the counters.
BatchFolded(t) == task[t].persons = <<>> \/ task[t].idx > Len(task[t].persons)

\* C16: a run that stop was called on in its batch loop enters no further
\* iteration (pulls no batch beyond the iteration it is in); it leaves the
\* loop only between batches (at the while condition, or at a fetch that gave
\* no rows) with every result of the batch in flight folded; and its final
\* checkpoint carries the advanced offset and running false.
C16_StopFinishesBatch ==
    [][\A t \in TaskIds :
          task[t].stopped
              => /\ ~(Pc(t) = "loop" /\ task'[t].pc = "dump_top")
                 /\ (Pc(t) # "finish" /\ task'[t].pc = "finish")
                       => Pc(t) \in {"loop", "fetch"} /\ BatchFolded(t)
                 /\ (Pc(t) = "dump_end" /\ task'[t].pc = "done")
                       => /\ ~enrichment_progress'.running
                          /\ file'.kind = "saved" /\ ~file'.data.running
                          /\ file'.data.last_offset = task[t].offset]_vars
\* The batches task t has submitted were read at offsets start_offset + i*B in
\* increasing order, over disjoint ranges, and share no candidate.
DisjointBatches(t) ==
    \A i, j \in 1..Len(task[t].log) :
        i < j => /\ task[t].log[i].offset + task[t].batch_size <= task[t].log[j].offset
                 /\ (task[t].log[j].offset - task[t].start_offset) % task[t].batch_size = 0
                 /\ task[t].log[i].ids \cap task[t].log[j].ids = {}

ResetReturns == resp' # resp /\ resp'.op = "reset"

\* C18: a reset made while a background run exists (counting, running or
\* stopping) is rejected and changes neither RunProgress nor the checkpoint
\* file; a reset made in Idle zeroes RunProgress and removes the checkpoint.
C18_ResetOnlyInIdle ==
    [][ResetReturns =>
          IF NoLiveTask
          THEN /\ resp'.status = "ok"
               /\ enrichment_progress' = DefaultProgress /\ file' = NoFile
          ELSE /\ resp'.status = "error"
               /\ UNCHANGED <<enrichment_progress, file>>]_vars
\* The fields of RunProgress other than the running flag and current_batch.
ProgressFields(d) ==
    [total |-> d.total, processed |-> d.processed, success |-> d.success,
     failed |-> d.failed, last_offset |-> d.last_offset,
     fail_reasons |-> d.fail_reasons, last_errors |-> d.last_errors]

\* C19: when the count query of a run fails, running is false, RunProgress is
\* what it was before the start or resume call, and no checkpoint is written.
C19_CountFailureLeavesProgress ==
    [][\A t \in TaskIds :
          (Pc(t) = "count" /\ task'[t].exit = "count_failed")
              => /\ ~enrichment_progress'.running
                 /\ ProgressFields(enrichment_progress') = ProgressFields(task[t].before)
                 /\ file' = file]_vars
\* The ways a run that reached its batch loop ends.
RunEnds == {"exhausted", "stopped", "gave_up"}

\* C20: when a run that reached Running ends, its final save leaves running
\* false and a checkpoint on disk equal to the in-memory RunProgress.
C20_FinalCheckpoint ==
    [][\A t \in TaskIds :
          (Pc(t) = "dump_end" /\ task'[t].pc = "done" /\ task[t].exit \in RunEnds)
              => /\ ~enrichment_progress'.running
                 /\ file' = SavedFile(enrichment_progress')]_vars

\* C21: enrich_single_person never raises: an exception thrown by the local
\* lookup, the label search, an attribute fetch or the store write is returned
\* as a result with status error that carries the exception's message.
C21_EnricherNeverRaises ==
    en.op = "enrich"
        => /\ ~en.result.raised
           /\ (en.failed \notin {"none", "run_sparql"}
                   => /\ en.pc = "done"
                      /\ en.result.status = "error"
                      /\ en.result.message = en.failed)

C21_Witness ==
    /\ en.op = "enrich"
    /\ en.failed = "upsert_person_enrichment"
    /\ en.result.status = "error"

\* C22: upsert_person_enrichment called a second time with the arguments of
\* the first leaves the graph as the first call left it: no node and no
\* relationship is added, no property changes.
C22_UpsertIdempotent ==
    (en.op = "upsert" /\ Len(en.upserts) >= 2) => en.g = en.g0

C22_Witness ==
    /\ en.op = "upsert"
    /\ Len(en.upserts) >= 2
    /\ en.upserts[1].person_id = "p1"
    /\ en.upserts[1].payload.killer = "k2"
    /\ Len(en.upserts[1].payload.items) = 2
    /\ Len(en.g.nodes) >= Len(BareStore.nodes) + 3

\* C23: a preview leaves the graph as it found it and calls no upsert, and a
\* preview and an enrichment of the same name, one after the other, that both
\* return ok return the same key.
C23_PreviewSameKeyNoWrite ==
    /\ en.op = "preview" => (en.g = en.g0 /\ en.upserts = <<>>)
    /\ (/\ en.pc = "done"
        /\ {en.op, en.last.op} = {"enrich", "preview"}
        /\ en.last.name = en.person.full_name
        /\ en.result.status = "ok"
        /\ en.last.result.status = "ok")
           => en.result.qid = en.last.result.qid

C23_Witness ==
    /\ en.pc = "done"
    /\ en.op = "preview"
    /\ en.last.op = "enrich"
    /\ en.last.name = en.person.full_name
    /\ en.result.status = "ok"
    /\ en.last.result.status = "ok"
    /\ Len(en.service[en.person.full_name]) = 2

\* C29: an enrichment whose name has a local match and one or more keys in the
\* service, and none of whose calls fails, returns ok with the first of the
\* keys, and has called the upsert once, for the matched entity, with the
\* fetched attributes, which the entity then carries.
FirstBinding == en.service[en.person.full_name][1]

C30_ShortCircuit ==
    en.op = "enrich"
        => /\ en.label_calls > 0 => en.lookups > 0
           /\ en.fetch_calls > 0 => en.label_calls > 0
           /\ en.upserts # <<>> => en.fetch_calls > 0
           /\ en.person.full_name \in {NULL, ""}
                 => /\ en.pc = "done" /\ en.result.status = "skipped"
                    /\ en.lookups = 0 /\ en.label_calls = 0
                    /\ en.fetch_calls = 0 /\ en.upserts = <<>> /\ en.g = en.g0
           /\ (/\ en.pc = "done" /\ en.failed = "none"
               /\ en.person.full_name \notin {NULL, ""}
               /\ FirstMatch(en.g0.nodes, en.person.full_name) = 0)
                 => /\ en.result.status = "not_found"
                    /\ en.lookups = 1 /\ en.label_calls = 0
                    /\ en.fetch_calls = 0 /\ en.upserts = <<>> /\ en.g = en.g0
           /\ (/\ en.pc = "done" /\ en.failed \in {"none", "run_sparql"}
               /\ en.match # 0
               /\ en.result.status # "ok")
                 => /\ en.result.status = "qid_not_found"
                    /\ en.lookups = 1 /\ en.label_calls = 1
                    /\ en.fetch_calls = 0 /\ en.upserts = <<>> /\ en.g = en.g0

C30_Witness ==
    /\ en.op = "enrich"
    /\ en.pc = "done"
    /\ en.result.status = "qid_not_found"
    /\ en.failed = "none"
    /\ en.calls = 2
    /\ en.last.result.status \in {"skipped", "not_found"}

\* C25: once every future of a batch has been collected, a timed-out one as
\* an error, the task can go on to the checkpoint of the batch, whether or not
\* the timed-out calls have returned.
C25_TimeoutDoesNotBlock ==
    \A t \in TaskIds : Pc(t) = "advance" => ENABLED advance(t)

\* C24: every row of a fetched batch is submitted to the pool once, and while
\* a task collects the futures of a batch of k rows processed changes only by
\* its own k increments, one per future, whether the call returned, raised or
\* timed out: when the batch has settled processed has grown by exactly k.
C24_OneFoldPerCandidate ==
    [][\A t \in TaskIds :
         /\ (Pc(t) = "fetch" /\ Pc(t)' = "process")
               => \A p \in Persons :
                     submitted'[p] - submitted[p] =
                        (IF \E i \in 1..Len(task'[t].persons) :
                               task'[t].persons[i].article_id = p
                         THEN 1 ELSE 0)
         /\ (Pc(t) \in {"process", "fold"} /\ Pc(t)' \in {"process", "fold", "advance"})
               => /\ enrichment_progress'.processed = enrichment_progress.processed +
                        (IF Pc(t) = "process" /\ Pc(t)' = "fold" THEN 1 ELSE 0)
                  /\ (Pc(t) = "process" /\ Pc(t)' = "fold")
                        => task[t].results[task[t].idx] # "pending"
                  /\ Pc(t)' = "advance" => task'[t].idx = Len(task[t].persons) + 1]_vars

\* C27: a row whose enrichment returned ok is in no batch fetched afterwards,
\* by the same run, a later run or a resume, a process kill in between or not.
C27_OkNeverFetchedAgain ==
    [][\A t \in TaskIds :
         (Pc(t) = "fetch" /\ Pc(t)' = "process")
            => \A i \in 1..Len(task'[t].persons), u \in TaskIds :
                  task'[t].persons[i].article_id \notin task[u].oks]_vars

\* C28: the call for a row that returns ok has written the key onto the
\* person whose article_id is the row's, and onto no other person.
C28_WritesOntoCandidate ==
    [][\A t \in TaskIds, i \in 1..MaxBatch :
         (/\ i <= Len(task[t].results) /\ i <= Len(task'[t].results)
          /\ task[t].results[i] = "pending"
          /\ task'[t].results[i] = "ok")
            => wikidata_qid' =
                  [wikidata_qid EXCEPT ![task[t].persons[i].article_id] = QID]]_vars

\* C26: a run over N candidates (the count it took when it began) whose every
\* external call fails transiently fewer times than the retry ceiling and then
\* succeeds ends with processed = N, success = N and failed = 0.
C26_TransientFailuresAllOk ==
    \A t \in TaskIds :
        Pc(t) = "done"
            => /\ enrichment_progress.processed = task[t].total
               /\ enrichment_progress.success = task[t].total
               /\ enrichment_progress.failed = 0

\* The step in which task t folds the status of its idx-th future.
FoldsStatus(t) == Pc(t) = "fold" /\ task'[t].idx = task[t].idx + 1

\* C31: last_errors never holds more than 10 entries, and the fold of every
\* result that is not ok, a timed-out or raised future included, appends the
\* candidate to it, after dropping the oldest entry when it held 10, the
\* entries kept staying in their order.
C31_LastErrorsRecent ==
    [][/\ Len(enrichment_progress'.last_errors) <= MaxLastErrors
       /\ \A t \in TaskIds :
             (FoldsStatus(t) /\ task[t].results[task[t].idx] # "ok")
                => LET old == enrichment_progress.last_errors
                       new == enrichment_progress'.last_errors
                       dropped == Len(old) + 1 - Len(new)
                   IN /\ Len(new) = Min({Len(old) + 1, MaxLastErrors})
                      /\ new[Len(new)].name = task[t].persons[task[t].idx].full_name
                      /\ \A k \in 1..(Len(new) - 1) : new[k] = old[k + dropped]]_vars

\* C32: after a successful confirm_person(name, qid), the key returned and the
\* key stored on the matched entity are the key of the request, whatever the
\* label search returns first.
C32_ConfirmSavesRequestedQid ==
    (en.op = "confirm" /\ en.pc = "done" /\ en.result.status = "ok")
        => /\ en.result.qid = en.requested
           /\ en.g.nodes[en.match].wikidata_qid = en.requested

\* C33: once it has listed the events, enrich_all_events returns one result
\* entry per Event of the store, in order; a failure on one event is an entry
\* of the list and never ends the call early.
C33_OneEntryPerEvent ==
    (ev.pc = "done" /\ ev.raised # "get_all_events")
        => /\ ev.raised = NULL
           /\ Len(ev.results) = Len(ev.store)
           /\ \A k \in 1..Len(ev.store) : ev.results[k].event_id = ev.store[k].event_id

\* C34: running is true only while a background task is scheduled or
\* executing: with no such task, also after a restart and a get_progress or
\* resume that reads a checkpoint saved mid-run, running is false.
C34_RunningOnlyWithTask == NoLiveTask => ~enrichment_progress.running

\* No task is between two statements of the fold of one result.
BatchBoundary == \A t \in TaskIds : Pc(t) \notin {"process", "fold"}

\* The sum of the fail_reasons counters.
fail_reasons_sum ==
    LET r == enrichment_progress.fail_reasons
    IN r.not_found + r.qid_not_found + r.error + r.skipped

\* C35: at every batch boundary, across any sequence of start, stop, resume
\* and reset, failed equals the sum of the fail_reasons counters.
C35_FailedIsSumOfReasons ==
    BatchBoundary => enrichment_progress.failed = fail_reasons_sum

\* "progress_pct = round(processed / total * 100, 2)" when total > 0, else 0,
\* compared with 100.
progress_percent_over_100 ==
    /\ enrichment_progress.total > 0
    /\ enrichment_progress.processed > enrichment_progress.total

\* C36: at every batch boundary processed <= total, so that the
\* progress_percent get_progress returns never exceeds 100, also after a resume.
C36_ProcessedAtMostTotal ==
    BatchBoundary => /\ enrichment_progress.processed <= enrichment_progress.total
                     /\ ~progress_percent_over_100

\* C37: every run terminates: whatever the batch size, the total and the
\* pattern of fetch failures, a scheduled task whose enrichment calls all
\* return ends with running false.
C37_EveryRunTerminates ==
    \A t \in TaskIds :
        (Pc(t) # "none") ~> (Pc(t) = "done" /\ ~enrichment_progress.running)

\* A run that folded a batch, then met max_retries failed fetches in a row,
\* has ended with running false.
C37_Witness ==
    \E t \in TaskIds : /\ Pc(t) = "done"
                        /\ task[t].exit = "gave_up"
                        /\ Len(task[t].log) > 0
                        /\ ~enrichment_progress.running

\* A stop() called now would leave every variable as it is: what follows it
\* is what would have followed without it.
stop_without_effect == ENABLED (stop_enrichment /\ UNCHANGED vars)

\* C38: a stop is never lost: while a task is scheduled and has not finished
\* counting, with candidates for it to fetch, a stop() does not go unnoticed
\* (the task it leaves behind would count, set running and fold every batch).
C38_StopNeverLost ==
    \A t \in TaskIds :
        (Pc(t) = "count" /\ Candidates # {} /\ ENABLED count_ok(t))
            => ~stop_without_effect

\* The step in which a fetch of task t returns rows, or the empty list.
FetchSucceeds(t) ==
    /\ Pc(t) = "fetch"
    /\ \/ task'[t].pc = "process"
       \/ task'[t].pc = "finish" /\ task'[t].exit = "exhausted"

\* C39: the retry counter counts consecutive failed fetches only: a successful
\* fetch leaves it at zero, it grows by one per failed fetch and not otherwise,
\* the offset moves only while it is zero, and a run is given up only in the
\* failed fetch that brings it to the ceiling, so all the failures counted
\* happened at one offset.
C39_ConsecutiveFailuresOnly ==
    [][\A t \in TaskIds :
          /\ FetchSucceeds(t) => task'[t].retry_count = 0
          /\ (Pc(t) # "none" /\ task'[t].retry_count # task[t].retry_count)
                => \/ FetchSucceeds(t)
                   \/ FetchFails(t)
          /\ task'[t].offset # task[t].offset => task[t].retry_count = 0
          /\ (task[t].exit # "gave_up" /\ task'[t].exit = "gave_up")
                => FetchFails(t) /\ task'[t].retry_count = max_retries]_vars

\* A run that fetched two batches and then gave up holds exactly the ceiling
\* in its counter: the failures it met are those of its last offset.
C39_Witness ==
    \E t \in TaskIds : /\ task[t].exit = "gave_up"
                        /\ Len(task[t].log) >= 2
                        /\ task[t].offset > 0
                        /\ task[t].retry_count = max_retries
====
